---- MODULE Spec2Model ----
(***************************************************************************)
(* Model of src/server.js, the SightShare backend: two SQLite tables       *)
(* (guests, orders) behind an express HTTP surface.                        *)
(*                                                                         *)
(* Every handler runs in two steps, as in the code: the synchronous part   *)
(* (destructuring, validation, db.run/db.all/db.get) hands a statement to  *)
(* the store, and the store later executes it and runs the callback that   *)
(* answers the request.  node-sqlite3 runs statements in its default       *)
(* parallel mode, so statements handed to the store by different requests  *)
(* execute in any order; each single statement is atomic.                  *)
(***************************************************************************)
EXTENDS Integers, Sequences, FiniteSets, TLC

VARIABLES
    guests,       \* rows of table guests   (src/server.js:27-37)
    orders,       \* rows of table orders   (src/server.js:39-51)
    guestSeq,     \* sqlite_sequence entry of guests (AUTOINCREMENT, line 29)
    orderSeq,     \* sqlite_sequence entry of orders (AUTOINCREMENT, line 41)
    clock,        \* the store's CURRENT_TIMESTAMP, in whole seconds
    pending,      \* statements handed to the store and not executed yet
    res,          \* the last HTTP response sent
    before,       \* history: the two tables as they were when the statement
                  \* behind the last response started executing
    issued,       \* history: the ids returned by successful guest creates, in order
    submitted,    \* history: id -> photos value submitted, for the stored orders
    hist,         \* history: the states of the tables during the open stats request;
                  \* the answer to the request carries it as "during"
    proc,         \* "running", "exited" (process.exit) or "killed" (default signal action)
    closeReq,     \* db.close() has been called and waits for the pending statements
    dbState,      \* the storage connection: "open", "closed" or "closeFailed"
    exitCode,     \* the process's exit code once it is gone, -1 before
    dropped       \* history: statements that were pending when the process went away

vars == <<guests, orders, guestSeq, orderSeq, clock, pending, res, before,
          issued, submitted, hist, proc, closeReq, dbState, exitCode, dropped>>

(***************************************************************************)
(* Bounds of the model.                                                    *)
(***************************************************************************)
MaxCreates == 2     \* inserts per table in one run
MaxPending == 2     \* statements in flight at once
MaxClock   == 1     \* seconds the clock advances in one run

(***************************************************************************)
(* JavaScript values of a request body.  A text field is a string, or      *)
(* UNDEF when the key is absent.  The photos field is a tagged value: an   *)
(* array of strings, a string, a number, or absent.  A string is a         *)
(* sequence of one-character strings so that JSON text can be built and    *)
(* read back character by character.                                       *)
(***************************************************************************)
UNDEF == "undefined"

Falsy(v) == v = UNDEF \/ v = ""

Undef     == [t |-> "undef", a |-> <<>>, s |-> <<>>, n |-> 0]
Arr(a)    == [t |-> "arr", a |-> a, s |-> <<>>, n |-> 0]
Str(s)    == [t |-> "str", a |-> <<>>, s |-> s, n |-> 0]
Num(n)    == [t |-> "num", a |-> <<>>, s |-> <<>>, n |-> n]
Invalid   == [t |-> "error", a |-> <<>>, s |-> <<>>, n |-> 0]

\* !photos : undefined and the empty string are falsy, 0 is falsy,
\* every array (the empty one too) and every non-empty string is truthy.
FalsyValue(p) ==
    \/ p.t = "undef"
    \/ p.t = "str" /\ p.s = <<>>
    \/ p.t = "num" /\ p.n = 0

\* photos.length : defined for arrays and strings, undefined for a number.
HasLength(p) == p.t \in {"arr", "str"}
Length(p) == IF p.t = "arr" THEN Len(p.a) ELSE Len(p.s)

Q  == "\""
BS == "\\"

(***************************************************************************)
(* JSON.stringify and JSON.parse on the values above (lines 99, 144, 164). *)
(* JSON text is a sequence of characters.  A string is written between     *)
(* quotes with every quote and backslash escaped by a backslash; an array  *)
(* is written as its elements separated by commas between brackets.        *)
(***************************************************************************)
\* Escape without the escaping: the text of a string is copied as it is.
EscapeNone(s) == s

RECURSIVE Escape(_)
Escape(s) ==
    IF s = <<>> THEN <<>>
    ELSE (IF Head(s) \in {Q, BS} THEN <<BS, Head(s)>> ELSE <<Head(s)>>) \o Escape(Tail(s))

Quoted(s) == <<Q>> \o Escape(s) \o <<Q>>

RECURSIVE Joined(_)
Joined(a) ==
    IF a = <<>> THEN <<>>
    ELSE IF Len(a) = 1 THEN Quoted(a[1])
    ELSE Quoted(Head(a)) \o <<",">> \o Joined(Tail(a))

Digits == {"0", "1", "2", "3", "4", "5", "6", "7", "8", "9"}

JSONstringify(p) ==
    CASE p.t = "arr" -> <<"[">> \o Joined(p.a) \o <<"]">>
      [] p.t = "str" -> Quoted(p.s)
      [] p.t = "num" -> <<ToString(p.n)>>
      [] OTHER       -> <<>>

\* Reads the characters of a string whose opening quote is before position i.
\* Answers the string and the position after its closing quote.
RECURSIVE ScanString(_, _, _)
ScanString(t, i, acc) ==
    IF i > Len(t) THEN [ok |-> FALSE, v |-> <<>>, next |-> i]
    ELSE IF t[i] = Q THEN [ok |-> TRUE, v |-> acc, next |-> i + 1]
    ELSE IF t[i] = BS
         THEN IF i + 1 <= Len(t) /\ t[i + 1] \in {Q, BS}
              THEN ScanString(t, i + 2, Append(acc, t[i + 1]))
              ELSE [ok |-> FALSE, v |-> <<>>, next |-> i]
    ELSE ScanString(t, i + 1, Append(acc, t[i]))

\* Reads the elements of an array from position i, the first character of an element.
RECURSIVE ScanElements(_, _, _)
ScanElements(t, i, acc) ==
    IF i > Len(t) \/ t[i] # Q THEN Invalid
    ELSE LET s == ScanString(t, i + 1, <<>>) IN
         IF ~s.ok \/ s.next > Len(t) THEN Invalid
         ELSE IF t[s.next] = "]"
              THEN IF s.next = Len(t) THEN Arr(Append(acc, s.v)) ELSE Invalid
         ELSE IF t[s.next] = ","
              THEN ScanElements(t, s.next + 1, Append(acc, s.v))
         ELSE Invalid

DigitValue(c) == CHOOSE n \in 0..9 : ToString(n) = c

\* JSON.parse: Invalid stands for the SyntaxError it throws.  Text written by
\* JSON.stringify never makes it throw.
JSONparse(t) ==
    IF t = <<>> THEN Invalid
    ELSE IF t[1] = "["
         THEN IF t = <<"[", "]">> THEN Arr(<<>>) ELSE ScanElements(t, 2, <<>>)
    ELSE IF t[1] = Q
         THEN LET s == ScanString(t, 2, <<>>) IN
              IF s.ok /\ s.next = Len(t) + 1 THEN Str(s.v) ELSE Invalid
    ELSE IF Len(t) = 1 /\ t[1] \in Digits THEN Num(DigitValue(t[1]))
    ELSE Invalid

(***************************************************************************)
(* The store.                                                              *)
(***************************************************************************)
Max(S) == CHOOSE x \in S : \A y \in S : y <= x

MaxRowid(table) == IF table = {} THEN 0 ELSE Max({r.id : r \in table})

\* INTEGER PRIMARY KEY without AUTOINCREMENT: one more than the largest rowid
\* the table holds now, so the id of a deleted last row is given out again.
RowidReusing(seq, table) == MaxRowid(table) + 1

\* INTEGER PRIMARY KEY AUTOINCREMENT (lines 29, 41): one more than the largest
\* rowid the table has ever held, which sqlite_sequence remembers.
NextRowid(seq, table) == Max({seq, MaxRowid(table)}) + 1

\* new Date().toISOString() at the time the handler runs (lines 76, 104).
toISOString(now) == ToString(now)

\* The integers a bound text parameter equals when compared with an INTEGER
\* column (lines 175, 188): the column's affinity turns a text that is a
\* well-formed integer into that integer; any other text equals no integer.
IntegerOf(text) == {n \in 0..(MaxCreates + 2) : ToString(n) = text}

\* DELETE FROM <table> with the WHERE clause left out: every row goes.
WithoutAnyRow(table, text) == {}

\* DELETE FROM <table> WHERE id = ?
WithoutId(table, text) == {r \in table : r.id \notin IntegerOf(text)}

\* this.changes as a truncating delete would report it: no row counted.
ChangesOfTruncate(table) == 0

\* this.changes after DELETE FROM <table> (lines 204, 215): the rows deleted.
Changes(table) == Cardinality(table)

\* SELECT ... WHERE gallery_id = ?  (line 154)
WhereGallery(table, galleryId) == {r \in table : r.gallery_id = galleryId}

\* The answers ORDER BY created_at DESC allows (lines 133, 154): every
\* arrangement of the rows in which created_at never increases.  Rows with
\* the same created_at (CURRENT_TIMESTAMP has a resolution of one second)
\* come in an order SQL leaves open.
OrderByCreatedAtDesc(rows) ==
    {s \in [1..Cardinality(rows) -> rows] :
        /\ \A i, j \in DOMAIN s : i # j => s[i] # s[j]
        /\ \A i, j \in DOMAIN s : i < j => s[i].created_at >= s[j].created_at}

\* rows.map(order => ({...order, photos: JSON.parse(order.photos)}))  (lines 142-145, 162-165)
ParsePhotos(rows) == [i \in DOMAIN rows |-> [rows[i] EXCEPT !.photos = JSONparse(rows[i].photos)]]

RECURSIVE SumPhotoCount(_)
SumPhotoCount(table) ==
    IF table = {} THEN 0
    ELSE LET r == CHOOSE x \in table : TRUE IN r.photo_count + SumPhotoCount(table \ {r})

\* A value a query answers or a response carries: a number or NULL.
SqlNull == [null |-> TRUE, n |-> 0]
SqlInt(k) == [null |-> FALSE, n |-> k]

\* SELECT SUM(photo_count) as count FROM orders (line 266): NULL over no rows.
SumOrNull(table) == IF table = {} THEN SqlNull ELSE SqlInt(SumPhotoCount(table))

\* row.count without the || 0.
OrZeroMissing(v) == v

\* row.count || 0 (line 268): NULL and 0 are falsy and give 0.
OrZero(v) == IF v.null \/ v.n = 0 THEN SqlInt(0) ELSE v

Remove(seq, i) == [k \in 1..(Len(seq) - 1) |-> IF k < i THEN seq[k] ELSE seq[k + 1]]

Tables == [guests |-> guests, orders |-> orders]

StatsKinds == {"countGuests", "countOrders", "sumPhotos"}
StatsOpen == \E i \in DOMAIN pending : pending[i].kind \in StatsKinds

NoResponse == [kind |-> "none", status |-> 0]

Init ==
    /\ guests = {}
    /\ orders = {}
    /\ guestSeq = 0
    /\ orderSeq = 0
    /\ clock = 0
    /\ pending = <<>>
    /\ res = NoResponse
    /\ before = Tables
    /\ issued = <<>>
    /\ submitted = <<>>
    /\ hist = <<>>
    /\ proc = "running"
    /\ closeReq = FALSE
    /\ dbState = "open"
    /\ exitCode = -1
    /\ dropped = <<>>

(***************************************************************************)
(* The synchronous part of each handler: it answers 400 at once, or hands  *)
(* one statement to the store.  A statement in flight keeps the request it *)
(* belongs to (the callback's closure) and its bound parameters.           *)
(***************************************************************************)
Accepting == proc = "running" /\ Len(pending) < MaxPending

Hand(op) ==
    /\ pending' = Append(pending, op)
    /\ UNCHANGED <<guests, orders, guestSeq, orderSeq, clock, res, before,
                   issued, submitted, hist, proc, closeReq, dbState, exitCode, dropped>>

Answer(r) ==
    /\ res' = r
    /\ before' = Tables
    /\ UNCHANGED <<guests, orders, guestSeq, orderSeq, clock, pending,
                   issued, submitted, hist, proc, closeReq, dbState, exitCode, dropped>>

InFlight(kind) == Cardinality({i \in DOMAIN pending : pending[i].kind = kind})

\* The presence check of POST /api/guests without the check of email.
GuestFieldsMissingNoEmail(b) == Falsy(b.name) \/ Falsy(b.galleryName) \/ Falsy(b.galleryId)

\* if (!name || !email || !galleryName || !galleryId)   (line 69)
GuestFieldsMissing(b) ==
    Falsy(b.name) \/ Falsy(b.email) \/ Falsy(b.galleryName) \/ Falsy(b.galleryId)

\* if (!name || !email || !galleryName || !galleryId || !photos)   (line 94)
OrderFieldsMissing(b) ==
    Falsy(b.name) \/ Falsy(b.email) \/ Falsy(b.galleryName) \/ Falsy(b.galleryId)
        \/ FalsyValue(b.photos)

\* app.post('/api/guests')   (lines 66-76)
PostGuests(b) ==
    /\ proc = "running"
    /\ IF GuestFieldsMissing(b)
       THEN Answer([kind |-> "postGuests", status |-> 400, req |-> b])
       ELSE /\ Len(pending) < MaxPending
            /\ Len(issued) + InFlight("insertGuest") < MaxCreates
            /\ Hand([kind |-> "insertGuest", http |-> "postGuests", req |-> b,
                     args |-> [name |-> b.name, email |-> b.email,
                               gallery_name |-> b.galleryName, gallery_id |-> b.galleryId,
                               visit_date |-> IF Falsy(b.visitDate) THEN toISOString(clock)
                                              ELSE b.visitDate]])

\* app.post('/api/orders')   (lines 91-104).  photos.length of a value without
\* a length is undefined, which the store binds as NULL.
PostOrders(b) ==
    /\ proc = "running"
    /\ IF OrderFieldsMissing(b)
       THEN Answer([kind |-> "postOrders", status |-> 400, req |-> b])
       ELSE /\ Len(pending) < MaxPending
            /\ orderSeq + InFlight("insertOrder") < MaxCreates
            /\ Hand([kind |-> "insertOrder", http |-> "postOrders", req |-> b,
                     args |-> [name |-> b.name, email |-> b.email,
                               gallery_name |-> b.galleryName, gallery_id |-> b.galleryId,
                               photo_count |-> IF HasLength(b.photos)
                                               THEN SqlInt(Length(b.photos)) ELSE SqlNull,
                               photos |-> JSONstringify(b.photos),
                               submitted_at |-> IF Falsy(b.submittedAt) THEN toISOString(clock)
                                                ELSE b.submittedAt]])

\* app.get('/api/orders')   (lines 132-135)
GetOrders ==
    /\ Accepting
    /\ Hand([kind |-> "selectOrders", http |-> "getOrders", req |-> UNDEF])

\* app.get('/api/orders/:galleryId')   (lines 152-156)
GetOrdersByGallery(galleryId) ==
    /\ Accepting
    /\ Hand([kind |-> "selectOrdersByGallery", http |-> "getOrdersByGallery", req |-> galleryId])

\* app.delete('/api/guests/:id')   (lines 172-175)
DeleteGuest(id) ==
    /\ Accepting
    /\ Hand([kind |-> "deleteGuest", http |-> "deleteGuest", req |-> id])

\* app.delete('/api/orders/:id')   (lines 185-188)
DeleteOrder(id) ==
    /\ Accepting
    /\ Hand([kind |-> "deleteOrder", http |-> "deleteOrder", req |-> id])

\* app.delete('/api/guests')   (lines 198-199)
ClearGuests ==
    /\ Accepting
    /\ Hand([kind |-> "clearGuests", http |-> "clearGuests", req |-> UNDEF])

\* app.delete('/api/orders')   (lines 209-210)
ClearOrders ==
    /\ Accepting
    /\ Hand([kind |-> "clearOrders", http |-> "clearOrders", req |-> UNDEF])

\* app.get('/api/stats')   (lines 255-258): the first of three queries.
\* One stats request is followed at a time.
GetStats ==
    /\ Accepting
    /\ ~StatsOpen
    /\ pending' = Append(pending, [kind |-> "countGuests", http |-> "getStats", req |-> UNDEF])
    /\ hist' = <<Tables>>
    /\ UNCHANGED <<guests, orders, guestSeq, orderSeq, clock, res, before,
                   issued, submitted, proc, closeReq, dbState, exitCode, dropped>>

(***************************************************************************)
(* The store executes a statement in flight and runs its callback.         *)
(***************************************************************************)
Runs(i, kind) ==
    /\ proc = "running"
    /\ dbState = "open"
    /\ i \in DOMAIN pending
    /\ pending[i].kind = kind

\* The history of table states grows while a stats request is open.
Record(g, o) ==
    LET t == [guests |-> g, orders |-> o] IN
    hist' = IF StatsOpen /\ t # hist[Len(hist)] THEN Append(hist, t) ELSE hist

Extend(f, k, v) == [x \in DOMAIN f \cup {k} |-> IF x = k THEN v ELSE f[x]]
Restrict(f, S) == [x \in S |-> f[x]]

\* The callback of db.run in POST /api/guests   (lines 76-87)
RunInsertGuest(i) ==
    /\ Runs(i, "insertGuest")
    /\ LET op == pending[i]
           id == NextRowid(guestSeq, guests)
           row == [id |-> id, name |-> op.args.name, email |-> op.args.email,
                   gallery_name |-> op.args.gallery_name, gallery_id |-> op.args.gallery_id,
                   visit_date |-> op.args.visit_date, created_at |-> clock]
       IN /\ guests' = guests \cup {row}
          /\ guestSeq' = id
          /\ issued' = Append(issued, id)
          /\ res' = [kind |-> "postGuests", status |-> 200, req |-> op.req, id |-> id]
          /\ Record(guests', orders)
    /\ before' = Tables
    /\ pending' = Remove(pending, i)
    /\ UNCHANGED <<orders, orderSeq, clock, submitted, proc, closeReq, dbState, exitCode, dropped>>

\* The callback of db.run in POST /api/orders   (lines 104-115).  A NULL
\* photo_count violates NOT NULL (line 46): the statement fails, err is set.
RunInsertOrder(i) ==
    /\ Runs(i, "insertOrder")
    /\ LET op == pending[i]
           id == NextRowid(orderSeq, orders)
           row == [id |-> id, name |-> op.args.name, email |-> op.args.email,
                   gallery_name |-> op.args.gallery_name, gallery_id |-> op.args.gallery_id,
                   photo_count |-> op.args.photo_count.n, photos |-> op.args.photos,
                   submitted_at |-> op.args.submitted_at, created_at |-> clock]
       IN IF op.args.photo_count.null
          THEN /\ res' = [kind |-> "postOrders", status |-> 500, req |-> op.req]
               /\ UNCHANGED <<orders, orderSeq, submitted, hist>>
          ELSE /\ orders' = orders \cup {row}
               /\ orderSeq' = id
               /\ submitted' = Extend(submitted, id, op.req.photos)
               /\ res' = [kind |-> "postOrders", status |-> 200, req |-> op.req, id |-> id]
               /\ Record(guests, orders')
    /\ before' = Tables
    /\ pending' = Remove(pending, i)
    /\ UNCHANGED <<guests, guestSeq, clock, issued, proc, closeReq, dbState, exitCode, dropped>>

Read(i, r) ==
    /\ res' = r
    /\ before' = Tables
    /\ pending' = Remove(pending, i)
    /\ UNCHANGED <<guests, orders, guestSeq, orderSeq, clock, issued, submitted, hist,
                   proc, closeReq, dbState, exitCode, dropped>>

\* The callback of db.all in GET /api/orders   (lines 135-148)
RunSelectOrders(i) ==
    /\ Runs(i, "selectOrders")
    /\ \E rows \in OrderByCreatedAtDesc(orders) :
          Read(i, [kind |-> "getOrders", status |-> 200, orders |-> ParsePhotos(rows)])

\* The callback of db.all in GET /api/orders/:galleryId   (lines 156-168)
RunSelectOrdersByGallery(i) ==
    /\ Runs(i, "selectOrdersByGallery")
    /\ \E rows \in OrderByCreatedAtDesc(WhereGallery(orders, pending[i].req)) :
          Read(i, [kind |-> "getOrdersByGallery", status |-> 200, req |-> pending[i].req,
                   orders |-> ParsePhotos(rows)])

\* The callback of db.run in DELETE /api/guests/:id   (lines 175-181)
RunDeleteGuest(i) ==
    /\ Runs(i, "deleteGuest")
    /\ guests' = WithoutId(guests, pending[i].req)
    /\ res' = [kind |-> "deleteGuest", status |-> 200, req |-> pending[i].req, success |-> TRUE]
    /\ Record(guests', orders)
    /\ before' = Tables
    /\ pending' = Remove(pending, i)
    /\ UNCHANGED <<orders, guestSeq, orderSeq, clock, issued, submitted,
                   proc, closeReq, dbState, exitCode, dropped>>

\* The callback of db.run in DELETE /api/orders/:id   (lines 188-194)
RunDeleteOrder(i) ==
    /\ Runs(i, "deleteOrder")
    /\ orders' = WithoutId(orders, pending[i].req)
    /\ submitted' = Restrict(submitted, {r.id : r \in orders'})
    /\ res' = [kind |-> "deleteOrder", status |-> 200, req |-> pending[i].req, success |-> TRUE]
    /\ Record(guests, orders')
    /\ before' = Tables
    /\ pending' = Remove(pending, i)
    /\ UNCHANGED <<guests, guestSeq, orderSeq, clock, issued,
                   proc, closeReq, dbState, exitCode, dropped>>

\* The callback of db.run in DELETE /api/guests   (lines 199-205); this.changes
\* is the number of rows the statement deleted.
RunClearGuests(i) ==
    /\ Runs(i, "clearGuests")
    /\ guests' = {}
    /\ res' = [kind |-> "clearGuests", status |-> 200, success |-> TRUE,
               deleted |-> Changes(guests)]
    /\ Record(guests', orders)
    /\ before' = Tables
    /\ pending' = Remove(pending, i)
    /\ UNCHANGED <<orders, guestSeq, orderSeq, clock, issued, submitted,
                   proc, closeReq, dbState, exitCode, dropped>>

\* The callback of db.run in DELETE /api/orders   (lines 210-216)
RunClearOrders(i) ==
    /\ Runs(i, "clearOrders")
    /\ orders' = {}
    /\ submitted' = Restrict(submitted, {})
    /\ res' = [kind |-> "clearOrders", status |-> 200, success |-> TRUE,
               deleted |-> Changes(orders)]
    /\ Record(guests, orders')
    /\ before' = Tables
    /\ pending' = Remove(pending, i)
    /\ UNCHANGED <<guests, guestSeq, orderSeq, clock, issued,
                   proc, closeReq, dbState, exitCode, dropped>>

(***************************************************************************)
(* GET /api/stats: three queries, each handed to the store by the callback *)
(* of the one before (lines 258-273).                                      *)
(***************************************************************************)
Replace(seq, i, op) == [seq EXCEPT ![i] = op]

\* SELECT COUNT(*) as count FROM guests, asked of the orders table too.
TotalOrdersFromGuests(t) == Cardinality(t.guests)

\* SELECT COUNT(*) as count FROM guests   (line 258)
TotalGuests(t) == Cardinality(t.guests)

\* SELECT COUNT(*) as count FROM orders   (line 262)
TotalOrders(t) == Cardinality(t.orders)

\* SELECT SUM(photo_count) as count FROM orders, then row.count || 0   (lines 266-268)
TotalPhotosOrdered(t) == OrZero(SumOrNull(t.orders))

Nested(i, op) ==
    /\ pending' = Replace(pending, i, op)
    /\ UNCHANGED <<guests, orders, guestSeq, orderSeq, clock, res, before, issued, submitted,
                   hist, proc, closeReq, dbState, exitCode, dropped>>

\* The callbacks of the three db.get calls   (lines 258-260, 262-264, 266-270)
RunCountGuests(i) ==
    /\ Runs(i, "countGuests")
    /\ Nested(i, [kind |-> "countOrders", http |-> "getStats", req |-> UNDEF,
                  stats |-> [totalGuests |-> TotalGuests(Tables)]])

RunCountOrders(i) ==
    /\ Runs(i, "countOrders")
    /\ Nested(i, [kind |-> "sumPhotos", http |-> "getStats", req |-> UNDEF,
                  stats |-> [totalGuests |-> pending[i].stats.totalGuests,
                             totalOrders |-> TotalOrders(Tables)]])

RunSumPhotos(i) ==
    /\ Runs(i, "sumPhotos")
    /\ Read(i, [kind |-> "getStats", status |-> 200, success |-> TRUE,
                stats |-> [totalGuests |-> pending[i].stats.totalGuests,
                           totalOrders |-> pending[i].stats.totalOrders,
                           totalPhotosOrdered |-> TotalPhotosOrdered(Tables)],
                during |-> hist])

\* A statement fails in the store (disk error, lock): every callback answers
\* 500 with { error: 'Database error' } and changes nothing
\* (lines 77-80, 105-108, 136-139, 157-160, 176-179, 189-192, 200-203, 211-214, 259, 263, 267).
DbError(i) ==
    /\ proc = "running"
    /\ dbState = "open"
    /\ i \in DOMAIN pending
    /\ Read(i, [kind |-> pending[i].http, status |-> 500, req |-> pending[i].req,
                failed |-> pending[i].kind])

(***************************************************************************)
(* Signals and shutdown (lines 288-298).  Only SIGINT has a handler; its   *)
(* handler calls db.close, which the store runs once no statement is in    *)
(* flight, and the callback of db.close exits with code 0 whether or not   *)
(* the close failed.  SIGTERM has no handler: the runtime's default        *)
(* action ends the process at once with code 128 + 15.                     *)
(***************************************************************************)
SigtermExit == 128 + 15

\* process.on('SIGINT') (lines 289-290): db.close is called.  A second SIGINT
\* calls db.close again behind the first and changes nothing.
Sigint ==
    /\ proc = "running"
    /\ ~closeReq
    /\ closeReq' = TRUE
    /\ UNCHANGED <<guests, orders, guestSeq, orderSeq, clock, pending, res, before, issued,
                   submitted, hist, proc, dbState, exitCode, dropped>>

\* The process goes away: what was in flight stays undone.
Gone(how, code, db) ==
    /\ proc' = how
    /\ exitCode' = code
    /\ dbState' = db
    /\ dropped' = pending
    /\ UNCHANGED <<guests, orders, guestSeq, orderSeq, clock, pending, res, before, issued,
                   submitted, hist, closeReq>>

\* db.close is exclusive: it starts when no statement is in flight.
CloseReady == pending = <<>>

\* The callback of db.close (lines 290-297): it logs the error or the
\* success and calls process.exit(0) in both cases.
CloseDb ==
    /\ proc = "running"
    /\ closeReq
    /\ dbState = "open"
    /\ CloseReady
    /\ \/ Gone("exited", 0, "closed")
       \/ Gone("exited", 0, "closeFailed")

\* SIGTERM: no handler is registered, the process ends without db.close.
Sigterm ==
    /\ proc = "running"
    /\ Gone("killed", SigtermExit, dbState)

\* A second passes: CURRENT_TIMESTAMP and new Date() advance.
Tick ==
    /\ clock < MaxClock
    /\ proc = "running"
    /\ clock' = clock + 1
    /\ UNCHANGED <<guests, orders, guestSeq, orderSeq, pending, res, before, issued,
                   submitted, hist, proc, closeReq, dbState, exitCode, dropped>>

(***************************************************************************)
(* The requests of the environment.                                        *)
(***************************************************************************)
GuestOk == [name |-> "Ann", email |-> "a@x.com", galleryName |-> "Spring",
            galleryId |-> "g1", visitDate |-> UNDEF]

RequiredFields == {"name", "email", "galleryName", "galleryId"}

\* A valid body and the bodies that lack one required field or hold it empty.
LackingOne(ok) == {[ok EXCEPT ![f] = v] : f \in RequiredFields, v \in {UNDEF, ""}}

GuestBodies == {GuestOk, [GuestOk EXCEPT !.visitDate = "2024-05-01"]} \cup LackingOne(GuestOk)

OrderOk == [name |-> "Ann", email |-> "a@x.com", galleryName |-> "Spring",
            galleryId |-> "g1", photos |-> Arr(<<<<"a">>, <<"b">>>>), submittedAt |-> UNDEF]

\* Photo identifiers: plain ones and ones that hold the characters JSON text
\* is built from.
PhotoIds == {<<"a">>, <<"b", Q>>, <<BS>>, <<",", "]">>}

PhotoLists ==
    {<<>>} \cup {<<x>> : x \in PhotoIds}
           \cup {<< <<"b", Q>>, <<BS>> >>, << <<",", "]">>, <<"a">> >>}

PhotosValues ==
    {Arr(a) : a \in PhotoLists} \cup {Undef, Str(<<>>), Str(<<"a", Q>>), Num(7), Num(0)}

Galleries == {"g1", "g2"}

OrderBodiesCrud ==
    {OrderOk, [OrderOk EXCEPT !.photos = Arr(<<>>)], [OrderOk EXCEPT !.photos = Undef],
     [OrderOk EXCEPT !.photos = Str(<<>>)]} \cup LackingOne(OrderOk)

OrderBodiesPhotos == {[OrderOk EXCEPT !.photos = p] : p \in PhotosValues}

OrderBodiesGallery == {[OrderOk EXCEPT !.galleryId = g] : g \in Galleries}

IdParams == {ToString(n) : n \in 1..(MaxCreates + 1)} \cup {"abc"}

\* The statements of the creates and deletes.
Stores ==
    \/ \E i \in DOMAIN pending : RunInsertGuest(i)
    \/ \E i \in DOMAIN pending : RunInsertOrder(i)
    \/ \E i \in DOMAIN pending : RunDeleteGuest(i)
    \/ \E i \in DOMAIN pending : RunDeleteOrder(i)
    \/ \E i \in DOMAIN pending : RunClearGuests(i)
    \/ \E i \in DOMAIN pending : RunClearOrders(i)
    \/ \E i \in DOMAIN pending : DbError(i)

\* Creates and deletes on both tables, one request after the other: a
\* statement is atomic in the store, so what requests in flight together do
\* is what their statements do one after the other.
Idle == pending = <<>>

Next ==
    \/ \E b \in GuestBodies : Idle /\ PostGuests(b)
    \/ \E b \in OrderBodiesCrud : Idle /\ PostOrders(b)
    \/ \E id \in IdParams : Idle /\ DeleteGuest(id)
    \/ \E id \in IdParams : Idle /\ DeleteOrder(id)
    \/ Idle /\ ClearGuests
    \/ Idle /\ ClearOrders
    \/ Stores

Spec == Init /\ [][Next]_vars

(***************************************************************************)
(* Properties.                                                             *)
(***************************************************************************)
Created(kind) == res.kind = kind /\ res.status = 200

\* C1: the ids that successful guest creates return are strictly increasing
\* in the order of the creates, whatever was deleted in between, and the id
\* in a create's response is the newest of them.
C1_GuestIdsStrictlyIncreasing ==
    /\ \A i, j \in DOMAIN issued : i < j => issued[i] < issued[j]
    /\ Created("postGuests") => issued # <<>> /\ res.id = issued[Len(issued)]
    /\ \A r \in guests : \E i \in DOMAIN issued : issued[i] = r.id

\* C1 witness: a second create has answered after the first guest's row,
\* the row with the highest id, was deleted.
C1_Witness ==
    /\ Created("postGuests")
    /\ Len(issued) = 2
    /\ before.guests = {}

LacksText(b) == \E f \in RequiredFields : b[f] = UNDEF \/ b[f] = ""
LacksKey(b) == (\E f \in RequiredFields : b[f] = UNDEF) \/ b.photos = Undef

\* C3: a guest create with a required field missing or empty, and an order
\* create with a required field missing, is answered 400 and both tables
\* hold the rows they held before the request.
C3_MissingFieldRejected ==
    /\ (res.kind = "postGuests" /\ LacksText(res.req)) => res.status = 400 /\ Tables = before
    /\ (res.kind = "postOrders" /\ LacksKey(res.req)) => res.status = 400 /\ Tables = before

\* C3 witness: a guest create without email was answered while both tables held rows.
C3_Witness ==
    /\ res.kind = "postGuests"
    /\ res.req.email = UNDEF
    /\ res.status = 400
    /\ guests # {}
    /\ orders # {}

HasId(r, text) == ToString(r.id) = text

\* C6: a deleteOne that the store executes answers 200 with success: true,
\* removes the rows of its table whose id is the one asked for and no other
\* row, and leaves the other table alone; with no such row both tables stay
\* as they were.
C6_DeleteOne ==
    /\ (res.kind = "deleteGuest" /\ res.status # 500) =>
          /\ res.status = 200 /\ res.success
          /\ guests = {r \in before.guests : ~HasId(r, res.req)}
          /\ orders = before.orders
    /\ (res.kind = "deleteOrder" /\ res.status # 500) =>
          /\ res.status = 200 /\ res.success
          /\ orders = {r \in before.orders : ~HasId(r, res.req)}
          /\ guests = before.guests

\* C6 witness: a deleteOne removed one of two guests.
C6_Witness ==
    /\ res.kind = "deleteGuest"
    /\ res.status = 200
    /\ Cardinality(before.guests) = 2
    /\ Cardinality(guests) = 1

\* C6 witness of the other case: a deleteOne for an id no row has.
C6_WitnessAbsent ==
    /\ res.kind = "deleteOrder"
    /\ res.status = 200
    /\ before.orders # {}
    /\ \A r \in before.orders : ~HasId(r, res.req)

\* C7: a deleteAll that the store executes leaves its table empty, reports
\* as deleted the number of rows the table held, and leaves the other table alone.
C7_DeleteAll ==
    /\ (res.kind = "clearGuests" /\ res.status # 500) =>
          /\ res.status = 200
          /\ guests = {}
          /\ res.deleted = Cardinality(before.guests)
          /\ orders = before.orders
    /\ (res.kind = "clearOrders" /\ res.status # 500) =>
          /\ res.status = 200
          /\ orders = {}
          /\ res.deleted = Cardinality(before.orders)
          /\ guests = before.guests

\* C7 witness: a deleteAll removed two guests while orders were stored.
C7_Witness ==
    /\ res.kind = "clearGuests"
    /\ res.status = 200
    /\ res.deleted = 2
    /\ orders # {}

\* C7 witness of the empty table: deleteAll reported 0.
C7_WitnessEmpty ==
    /\ res.kind = "clearOrders"
    /\ res.status = 200
    /\ res.deleted = 0

(***************************************************************************)
(* Orders and their photos: creates with every photos value, reads and     *)
(* deletes.                                                                *)
(***************************************************************************)
NextPhotos ==
    \/ \E b \in OrderBodiesPhotos : Idle /\ PostOrders(b)
    \/ Idle /\ GetOrders
    \/ \E g \in Galleries : Idle /\ GetOrdersByGallery(g)
    \/ \E id \in IdParams : Idle /\ DeleteOrder(id)
    \/ Idle /\ ClearOrders
    \/ \E i \in DOMAIN pending : RunInsertOrder(i)
    \/ \E i \in DOMAIN pending : RunSelectOrders(i)
    \/ \E i \in DOMAIN pending : RunSelectOrdersByGallery(i)
    \/ \E i \in DOMAIN pending : RunDeleteOrder(i)
    \/ \E i \in DOMAIN pending : RunClearOrders(i)
    \/ \E i \in DOMAIN pending : DbError(i)

SpecPhotos == Init /\ [][NextPhotos]_vars

\* The number of elements of a photos sequence: an array's, or a string's characters.
Elements(p) == Len(p.a) + Len(p.s)

Listed == res.kind \in {"getOrders", "getOrdersByGallery"} /\ res.status = 200

\* C2: every stored order has photo_count equal to the length of the photos
\* it was created with, and every order that listAll or listByGallery
\* returns carries exactly those photos, element for element.
C2_PhotosRoundTrip ==
    /\ \A r \in orders :
          /\ r.id \in DOMAIN submitted
          /\ r.photo_count = Elements(submitted[r.id])
    /\ Listed => \A k \in DOMAIN res.orders :
          /\ res.orders[k].photos = submitted[res.orders[k].id]
          /\ res.orders[k].photo_count = Elements(submitted[res.orders[k].id])

\* C2 witness: a list returned two orders, one of them with photo
\* identifiers that hold a quote and a backslash.
C2_Witness ==
    /\ res.kind = "getOrders"
    /\ res.status = 200
    /\ Len(res.orders) = 2
    /\ \E k \in DOMAIN res.orders : res.orders[k].photos = Arr(<<<<"b", Q>>, <<BS>>>>)

\* C5: every stored order has a non-empty photos sequence.
C5_PhotosNonEmpty ==
    \A r \in orders : r.photo_count > 0 /\ Elements(JSONparse(r.photos)) > 0

(***************************************************************************)
(* Orders of several galleries created in the same second and in later     *)
(* seconds, and the list of one gallery.                                   *)
(***************************************************************************)
GalleryParams == Galleries \cup {"g9"}

NextOrders ==
    \/ \E b \in OrderBodiesGallery : Idle /\ PostOrders(b)
    \/ \E g \in GalleryParams : Idle /\ GetOrdersByGallery(g)
    \/ \E id \in IdParams : Idle /\ DeleteOrder(id)
    \/ Tick
    \/ \E i \in DOMAIN pending : RunInsertOrder(i)
    \/ \E i \in DOMAIN pending : RunSelectOrdersByGallery(i)
    \/ \E i \in DOMAIN pending : RunDeleteOrder(i)
    \/ \E i \in DOMAIN pending : DbError(i)

SpecOrders == Init /\ [][NextOrders]_vars

ListedIds == {res.orders[k].id : k \in DOMAIN res.orders}

\* What holds of listByGallery: the orders stored with that gallery_id, each
\* once, none of another gallery, created_at never increasing down the list.
ListByGalleryByCreatedAt ==
    (res.kind = "getOrdersByGallery" /\ res.status = 200) =>
        /\ ListedIds = {r.id : r \in {x \in before.orders : x.gallery_id = res.req}}
        /\ Len(res.orders) = Cardinality(ListedIds)
        /\ \A k \in DOMAIN res.orders : res.orders[k].gallery_id = res.req
        /\ \A i, j \in DOMAIN res.orders :
              i < j => res.orders[i].created_at >= res.orders[j].created_at

\* C4: listByGallery returns exactly the stored orders of that gallery, and
\* an order created later (it has the greater id) is never listed after an
\* order created earlier.
C4_ListByGalleryNewestFirst ==
    (res.kind = "getOrdersByGallery" /\ res.status = 200) =>
        /\ ListedIds = {r.id : r \in {x \in before.orders : x.gallery_id = res.req}}
        /\ Len(res.orders) = Cardinality(ListedIds)
        /\ \A k \in DOMAIN res.orders : res.orders[k].gallery_id = res.req
        /\ \A i, j \in DOMAIN res.orders : i < j => res.orders[i].id > res.orders[j].id

(***************************************************************************)
(* GET /api/stats among creates and deletes in flight together with it.    *)
(***************************************************************************)
OrderBodiesStats == {OrderOk}

\* No create or delete is in flight: the only statement in flight, if any,
\* is a query of the stats request.
NoWrite == \A i \in DOMAIN pending : pending[i].kind \in StatsKinds

\* Creates and deletes arrive one after the other, before, during and after
\* a stats request.
NextStats ==
    \/ NoWrite /\ PostGuests(GuestOk)
    \/ \E b \in OrderBodiesStats : NoWrite /\ PostOrders(b)
    \/ NoWrite /\ ClearOrders
    \/ GetStats
    \/ \E i \in DOMAIN pending : RunInsertGuest(i)
    \/ \E i \in DOMAIN pending : RunInsertOrder(i)
    \/ \E i \in DOMAIN pending : RunClearOrders(i)
    \/ \E i \in DOMAIN pending : RunCountGuests(i)
    \/ \E i \in DOMAIN pending : RunCountOrders(i)
    \/ \E i \in DOMAIN pending : RunSumPhotos(i)
    \/ \E i \in DOMAIN pending : DbError(i)

SpecStats == Init /\ [][NextStats]_vars

StatsAnswered == res.kind = "getStats" /\ res.status = 200

\* C9: a stats request during which no table changed answers the number of
\* guest rows, the number of order rows and the sum of photo_count, the
\* number 0 and not NULL with no orders; a stats request of which a query
\* failed answers 500 without stats; there is no other answer.
C9_Stats ==
    res.kind = "getStats" =>
        \/ /\ res.status = 200
           /\ res.success
           /\ ~res.stats.totalPhotosOrdered.null
           /\ Len(res.during) = 1 =>
                 /\ res.stats.totalGuests = Cardinality(res.during[1].guests)
                 /\ res.stats.totalOrders = Cardinality(res.during[1].orders)
                 /\ res.stats.totalPhotosOrdered = SqlInt(SumPhotoCount(res.during[1].orders))
        \/ /\ res.status = 500
           /\ res.failed \in StatsKinds
           /\ DOMAIN res = {"kind", "status", "req", "failed"}

\* C9 witness: stats answered for a store with guests and no orders.
C9_Witness ==
    /\ StatsAnswered
    /\ Len(res.during) = 1
    /\ res.during[1].guests # {}
    /\ res.during[1].orders = {}
    /\ res.stats.totalPhotosOrdered = SqlInt(0)

\* C9 witness: stats answered for a store with two orders.
C9_WitnessOrders ==
    /\ StatsAnswered
    /\ Len(res.during) = 1
    /\ res.stats.totalOrders = 2
    /\ res.stats.totalPhotosOrdered.n > 2

\* C9 witness: the last of the three queries failed.
C9_WitnessFailed ==
    /\ res.kind = "getStats"
    /\ res.status = 500
    /\ res.failed = "sumPhotos"

\* C10 as claimed: totalOrders and totalPhotosOrdered of one response are the
\* row count and the sum of one state the orders table was in during the request.
C10_OneState ==
    StatsAnswered =>
        \E k \in DOMAIN res.during :
            /\ res.stats.totalOrders = Cardinality(res.during[k].orders)
            /\ res.stats.totalPhotosOrdered = SqlInt(SumPhotoCount(res.during[k].orders))

\* C10 amended: totalOrders is the row count of a state the orders table was
\* in during the request and totalPhotosOrdered is the sum of photo_count of
\* that state or of a later state of the request.
C10_TwoStates ==
    StatsAnswered =>
        \E j, k \in DOMAIN res.during :
            /\ j <= k
            /\ res.stats.totalOrders = Cardinality(res.during[j].orders)
            /\ res.stats.totalPhotosOrdered = SqlInt(SumPhotoCount(res.during[k].orders))

\* C10 witness: an order was created between the second and the third query.
C10_Witness ==
    /\ StatsAnswered
    /\ res.stats.totalOrders = 0
    /\ res.stats.totalPhotosOrdered.n > 0

(***************************************************************************)
(* Signals while writes are in flight.                                     *)
(***************************************************************************)
NextShutdown ==
    \/ PostGuests(GuestOk)
    \/ \E id \in IdParams : DeleteGuest(id)
    \/ Sigint
    \/ Sigterm
    \/ CloseDb
    \/ \E i \in DOMAIN pending : RunInsertGuest(i)
    \/ \E i \in DOMAIN pending : RunDeleteGuest(i)
    \/ \E i \in DOMAIN pending : DbError(i)

SpecShutdown == Init /\ [][NextShutdown]_vars

\* What holds of SIGINT: the process exits with code 0 after db.close has
\* answered and with no statement left in flight.
SigintShutdown ==
    proc = "exited" => closeReq /\ dbState # "open" /\ dropped = <<>> /\ exitCode = 0

\* C8: once a termination signal has ended the process, the close of the
\* storage connection has completed, no write handed to the store was
\* dropped, and the exit code is 0.
C8_CloseBeforeExit ==
    proc # "running" => dbState # "open" /\ dropped = <<>> /\ exitCode = 0

====
